---- MODULE Spec2Model ----
(***************************************************************************)
(* Model of brazilfiscalreport/damdfe/damdfe.py: the constructor of        *)
(* Damdfe, which parses one MDF-e XML document and draws the DAMDFE on a   *)
(* single A4 page.                                                         *)
(*                                                                         *)
(* Lengths are integers in hundredths of a millimetre (3250 is 32.5 mm).   *)
(* A text is a sequence of strings (its pieces, in order): a literal label *)
(* is one piece, a value whose characters matter (the Id of infMDFe, the   *)
(* route string) is one piece per character.  The empty text is << >>.     *)
(*                                                                         *)
(* The page content is the sequence self.prims of the primitives drawn:    *)
(* text cells (multi_cell), rectangles, images, the QR code and the        *)
(* watermark text.  Calls that neither draw one of these nor move the      *)
(* cursor (line, set_font, set_dash_pattern, set_text_color) are left out. *)
(***************************************************************************)
EXTENDS Integers, Sequences, FiniteSets, TLC

VARIABLES
    xml,        \* the XML document given to the constructor
    config,     \* the DamdfeConfig object given to the constructor
    tables,     \* the module-level tables imported from damdfe_conf
    self,       \* the Damdfe instance under construction
    pc,         \* where the constructor is
    err,        \* the exception that ended the constructor ("none" if none)
    steps,      \* the steps of the constructor entered so far, in order
    built       \* the instances constructed earlier, with their inputs

vars == <<xml, config, tables, self, pc, err, steps, built>>

----------------------------------------------------------------------------
(* Bounds *)

MaxKeys == 3          \* children of infMunDescarga
MaxIdeChildren == 3   \* children of ide after tpAmb, tpEmit, tpEmis
MaxIdDigits == 2      \* characters of the Id attribute after "MDFe"
MaxBuilt == 1         \* constructions before the one in progress
MaxCalls == 2         \* calls of _build_chnfe_str on a constructed instance
MaxRightMargin == 11  \* the largest right margin tried, in millimetres

----------------------------------------------------------------------------
(* Texts *)

T(s) == <<s>>

NoText == << >>

RECURSIVE SeqsUpTo(_, _)
SeqsUpTo(S, n) ==
    IF n = 0 THEN {<< >>}
    ELSE LET shorter == SeqsUpTo(S, n - 1)
         IN  shorter \cup {Append(q, e) : q \in shorter, e \in S}

\* Python's s[k:]
SliceFrom(s, k) == IF Len(s) <= k THEN << >> ELSE SubSeq(s, k + 1, Len(s))

\* Python's s[:-k] for 0 < k
SliceDropLast(s, k) == IF Len(s) <= k THEN << >> ELSE SubSeq(s, 1, Len(s) - k)

\* Python's s.endswith(suffix)
EndsWith(s, suffix) ==
    /\ Len(s) >= Len(suffix)
    /\ SubSeq(s, Len(s) - Len(suffix) + 1, Len(s)) = suffix

\* The separator " / " of _build_percurso_str, one piece per character.
Separator == <<" ", "/", " ">>

----------------------------------------------------------------------------
(* XML elements.  An element is found or not (root.find returns None);     *)
(* tags maps the name of each descendant tag that has a text to that text; *)
(* attrib maps attribute names to texts; children are its child elements   *)
(* in document order.                                                      *)

Elem(tags, attrib, children) ==
    [exists |-> TRUE, tags |-> tags, attrib |-> attrib, children |-> children]

None == [exists |-> FALSE, tags |-> << >>, attrib |-> << >>, children |-> << >>]

Leaf == Elem(<< >>, << >>, << >>)

\* utils.get_tag_text(node, url, tag): node.find(url + tag).text, and "" when
\* that raises (node is None, or it has no such descendant).  The callers fix
\* this much: _build_percurso_str asks every child of ide for UFPer and
\* concatenates the answer, and _build_chnfe_str and
\* _draw_insurance_information test the answer for emptiness.
get_tag_text(node, tag) ==
    IF node.exists /\ tag \in DOMAIN node.tags THEN node.tags[tag] ELSE NoText

extract_text(node, tag) == get_tag_text(node, tag)

\* bool(element): an Element is true when it has children; None is false.
ElementBool(node) == node.exists /\ Len(node.children) > 0

\* utils.get_date_utc accepts a well-formed timestamp; it is asked for the
\* empty text whenever the tag is missing.
WellFormedDate == <<"2024-01-02T03:04:05-03:00">>
MalformedDate == <<"not-a-date">>
DateRaises(text) == text # NoText /\ text # WellFormedDate
get_date_utc(text) ==
    IF text = NoText THEN <<NoText, NoText>> ELSE <<T("02/01/2024"), T("03:04:05")>>

\* The formatters of utils are applied to their argument and not interpreted.
format_cep(text) == T("format_cep:") \o text
format_phone(text) == T("format_phone:") \o text
format_cpf_cnpj(text) == T("format_cpf_cnpj:") \o text
format_number(text, precision) == T("format_number:") \o text

----------------------------------------------------------------------------
(* damdfe_conf: the lookup tables *)

TP_AMBIENTE == (<<"1">> :> T("PRODUCAO")) @@ (<<"2">> :> T("HOMOLOGACAO"))
TP_EMISSAO == (<<"1">> :> T("NORMAL")) @@ (<<"2">> :> T("CONTINGENCIA"))
TP_EMITENTE ==
    (<<"1">> :> T("PRESTADOR DE SERVICO DE TRANSPORTE"))
    @@ (<<"2">> :> T("TRANSPORTADOR DE CARGA PROPRIA"))
    @@ (<<"3">> :> T("PRESTADOR DE SERVICO DE TRANSPORTE QUE EMITIRA CT-E GLOBALIZADO"))
URL == T(".//{http://www.portalfiscal.inf.br/mdfe}")

ModuleTables ==
    [TP_AMBIENTE |-> TP_AMBIENTE, TP_EMISSAO |-> TP_EMISSAO,
     TP_EMITENTE |-> TP_EMITENTE, URL |-> URL]

----------------------------------------------------------------------------
(* The inputs: XML documents *)

Without(f, tag) == [t \in DOMAIN f \ {tag} |-> f[t]]

\* opt is {} (the tag is missing) or {text}
Put(f, tag, opt) ==
    IF opt = {} THEN Without(f, tag)
    ELSE [t \in DOMAIN f \cup {tag} |-> IF t = tag THEN CHOOSE v \in opt : TRUE ELSE f[t]]

IdPrefix == <<"M", "D", "F", "e">>
IdDigits == {"3", "5"}
IdSet ==
    {SubSeq(IdPrefix, 1, k) : k \in 0..3}
    \cup {IdPrefix \o d : d \in SeqsUpTo(IdDigits, MaxIdDigits)}

InfMDFe(id) == Elem(<< >>, [Id |-> id], <<Leaf>>)
InfMDFeNoId == Elem(<< >>, << >>, <<Leaf>>)

ProtMDFe(dh) == Elem([nProt |-> T("nProt"), dhRecbto |-> dh], << >>, <<Leaf>>)
\* a protMDFe element without children
ProtMDFeEmpty == Elem(<< >>, << >>, << >>)

\* A child of ide that is a route entry (infPercurso with its UFPer), and one
\* that is not (tpAmb, dhIniViagem, ...).
InfPercurso(uf) == Elem([UFPer |-> uf], << >>, <<Leaf>>)
UFs == {<<"S", "P">>, <<"R", "J">>}
IdeChildKinds == {Leaf} \cup {InfPercurso(uf) : uf \in UFs}

IdeTags0 ==
    [mod |-> T("58"), serie |-> T("1"), nMDF |-> T("7"), dhEmi |-> WellFormedDate,
     UFIni |-> <<"S", "P">>, UFFim |-> <<"R", "J">>, tpEmis |-> <<"1">>,
     dhIniViagem |-> WellFormedDate, tpEmit |-> <<"1">>, tpAmb |-> <<"1">>]

\* ide: its first children are tpAmb, tpEmit and tpEmis, then come `rest`.
Ide(tags, rest) == Elem(tags, << >>, <<Leaf, Leaf, Leaf>> \o rest)

\* A child of infMunDescarga that holds a key (infNFe with its chNFe), and one
\* that does not (cMunDescarga, xMunDescarga).
InfNFe(ch) == Elem([chNFe |-> ch], << >>, <<Leaf>>)
ChNFes == {T("chNFe-A"), T("chNFe-B")}
MunChildKinds == {Leaf} \cup {InfNFe(ch) : ch \in ChNFes}
InfMunDescarga(children) == Elem([xMunDescarga |-> T("xMunDescarga")], << >>, children)

InfSegTags0 ==
    [xSeg |-> T("xSeg"), CNPJ |-> T("CNPJ"), nApol |-> T("nApol"), nAver |-> T("nAver")]

Xml0 ==
    [wellformed |-> TRUE,
     infMDFe |-> InfMDFe(IdPrefix \o <<"3", "5">>),
     protMDFe |-> ProtMDFe(WellFormedDate),
     ide |-> Ide(IdeTags0, <<InfPercurso(<<"S", "P">>), InfPercurso(<<"R", "J">>)>>),
     emit |-> Elem([xNome |-> T("xNome"), xLgr |-> T("xLgr"), nro |-> T("nro"),
                    xBairro |-> T("xBairro"), CEP |-> T("CEP"), xMun |-> T("xMun"),
                    UF |-> T("UF"), CNPJ |-> T("CNPJ"), IE |-> T("IE"),
                    fone |-> T("fone")], << >>, <<Leaf>>),
     infModal |-> Elem([RNTRC |-> T("RNTRC"), placa |-> T("placa"), UF |-> T("UF"),
                        RENAVAM |-> T("RENAVAM"), CPF |-> T("CPF"),
                        xNome |-> T("xNome")], << >>, <<Leaf>>),
     infDoc |-> Elem([xMunDescarga |-> T("xMunDescarga")], << >>, <<Leaf>>),
     infMunDescarga |-> InfMunDescarga(<<Leaf, InfNFe(T("chNFe-A"))>>),
     tot |-> Elem([qNFe |-> T("qNFe"), qCTe |-> T("qCTe"), qCarga |-> T("qCarga"),
                   vCarga |-> T("vCarga")], << >>, <<Leaf>>),
     infMDFeSupl |-> Elem([qrCodMDFe |-> T("qrCodMDFe")], << >>, <<Leaf>>),
     infAdic |-> Elem([infAdFisco |-> T("infAdFisco"), infCl |-> T("infCl")],
                      << >>, <<Leaf>>),
     infSeg |-> Elem(InfSegTags0, << >>, <<Leaf>>),
     disp |-> Elem([CNPJForn |-> T("CNPJForn"), CNPJPg |-> T("CNPJPg"),
                    nCompra |-> T("nCompra"), vValePed |-> T("vValePed")],
                   << >>, <<Leaf>>),
     \* the lines the driver's name (xNome of infModal) takes in a 100 mm cell
     xNomeLines |-> 1]

\* Documents that differ in the fields whose absence or value can end the
\* constructor, and in the environment and the protocol.
XmlValidity ==
    {[Xml0 EXCEPT
        !.infMDFe = m,
        !.protMDFe = p,
        !.ide = Ide(Put(Put(Put(Put(IdeTags0, "tpAmb", amb), "tpEmis", emis),
                            "tpEmit", emit_), "dhEmi", {dhEmi}),
                    <<InfPercurso(<<"S", "P">>)>>)] :
        m \in {None, InfMDFeNoId, InfMDFe(<<"M", "D", "F">>), InfMDFe(IdPrefix \o <<"3">>)},
        p \in {None, ProtMDFeEmpty, ProtMDFe(WellFormedDate), ProtMDFe(MalformedDate)},
        amb \in {{}, {<<"1">>}, {<<"2">>}, {<<"9">>}},
        emis \in {{<<"1">>}, {<<"9">>}},
        emit_ \in {{<<"2">>}, {}},
        dhEmi \in {WellFormedDate, MalformedDate}}
    \cup {[Xml0 EXCEPT !.wellformed = FALSE]}

XmlIds == {[Xml0 EXCEPT !.infMDFe = InfMDFe(id)] : id \in IdSet}

XmlKeys ==
    {[Xml0 EXCEPT !.infMunDescarga = InfMunDescarga(c), !.xNomeLines = n] :
        c \in SeqsUpTo(MunChildKinds, MaxKeys), n \in {1, 2}}
    \cup {[Xml0 EXCEPT !.infMunDescarga = None]}

XmlRoutes ==
    {[Xml0 EXCEPT !.ide = Ide(IdeTags0, rest)] :
        rest \in SeqsUpTo(IdeChildKinds, MaxIdeChildren)}

XmlInsurance ==
    {[Xml0 EXCEPT !.infSeg = seg, !.infAdic = adic] :
        seg \in {None} \cup {Elem(Put(Put(InfSegTags0, "xSeg", x), "nApol", a),
                                  << >>, <<Leaf>>) :
                             x \in {{}, {T("xSeg")}}, a \in {{}, {T("nApol")}}},
        adic \in {None, Xml0.infAdic}}

----------------------------------------------------------------------------
(* The inputs: configurations (margins in hundredths of a millimetre) *)

Margins(l, t, r, b) == [left |-> l, top |-> t, right |-> r, bottom |-> b]

Config0 == [margins |-> Margins(500, 500, 500, 500), logo |-> FALSE]

Configs ==
    {[margins |-> Margins(l, t, r, b), logo |-> g] :
        l \in {500, 1000}, t \in {500, 1000}, r \in {500, 1000, 1100},
        b \in {500, 7500}, g \in BOOLEAN}

\* Right margins: every whole millimetre from 0 on, and 5.5 mm.
RightMargins == {100 * k : k \in 0..MaxRightMargin} \cup {550}

ConfigsRight == {[Config0 EXCEPT !.margins.right = r] : r \in RightMargins}

Inputs ==
    ((XmlValidity \cup XmlIds \cup XmlRoutes \cup XmlInsurance) \X {Config0})
    \cup (XmlKeys \X Configs)
    \cup ({Xml0} \X ConfigsRight)

----------------------------------------------------------------------------
(* xFPDF: the page, the cursor and the primitives *)

PageW == 21000    \* A4, portrait
PageH == 29700

\* The instance after super().__init__(unit="mm", format="A4"): no page yet,
\* FPDF's default margins and page breaking.  The attributes Damdfe assigns
\* later hold their empty value until then.
NewInstance ==
    [page |-> 0, x |-> 0, y |-> 0,
     l_margin |-> 1000, t_margin |-> 1000, r_margin |-> 1000, b_margin |-> 2000,
     auto_page_break |-> TRUE, prims |-> << >>,
     logo_image |-> FALSE, key_mdfe |-> NoText, protocol |-> NoText,
     dh_recebto |-> NoText, hr_recebto |-> NoText,
     percurso_str |-> NoText, per |-> NoText, chNFe_str |-> << >>,
     x_margin_rect |-> 0]

set_margins(s, left, top, right) ==
    [s EXCEPT !.l_margin = left, !.t_margin = top, !.r_margin = right]

set_auto_page_break(s, auto, margin) ==
    [s EXCEPT !.auto_page_break = auto, !.b_margin = margin]

epw(s) == PageW - s.l_margin - s.r_margin

page_break_trigger(s) == PageH - s.b_margin

add_page(s) == [s EXCEPT !.page = @ + 1, !.x = s.l_margin, !.y = s.t_margin]

\* One drawing call of a section.  Every multi_cell of Damdfe follows a
\* set_xy, so a cell carries the position set_xy gave the cursor.
Cell(x, y, w, h, text, lines) ==
    [op |-> "cell", x |-> x, y |-> y, w |-> w, h |-> h, text |-> text, lines |-> lines]
\* the label and value cells of the tables: w=100, h=3
Cell3(x, y, text) == Cell(x, y, 10000, 300, text, 1)
\* the section titles: w=100, h=0
Cell0(x, y, text) == Cell(x, y, 10000, 0, text, 1)
\* set_xy that no multi_cell follows
SetXY(x, y) ==
    [op |-> "set_xy", x |-> x, y |-> y, w |-> 0, h |-> 0, text |-> NoText, lines |-> 0]
Rect(x, y, w, h) ==
    [op |-> "rect", x |-> x, y |-> y, w |-> w, h |-> h, text |-> NoText, lines |-> 0]
Image(name, x, y, w, h) ==
    [op |-> "image", x |-> x, y |-> y, w |-> w, h |-> h, text |-> name, lines |-> 0]
Barcode(data, x, y, w, h) ==
    [op |-> "barcode", x |-> x, y |-> y, w |-> w, h |-> h, text |-> data, lines |-> 0]
QrCode(data, x, y, box) ==
    [op |-> "qr", x |-> x, y |-> y, w |-> box, h |-> box, text |-> data, lines |-> 0]

\* multi_cell: a cell that would end below the page break trigger starts a new
\* page when automatic page breaking is on.
will_page_break(s, c) ==
    c.op = "cell" /\ s.auto_page_break /\ c.y + c.h > page_break_trigger(s)

IsPrim(p) == p.op # "set_xy"

Max(S) == CHOOSE m \in S : \A k \in S : k <= m

\* The calls of a section, in order.  A cell is drawn where set_xy put the
\* cursor, or at the top left of the new page it starts; with the default
\* new_x=RIGHT, new_y=NEXT it leaves the cursor at its right, `lines` lines of
\* height h further down.  Rectangles and images do not move the cursor.
Draw(s, sec, calls) ==
    LET n == Len(calls)
        breaks == {k \in 1..n : will_page_break(s, calls[k])}
        PageAt(k) == s.page + Cardinality({j \in breaks : j <= k})
        XAt(k) == IF k \in breaks THEN s.l_margin ELSE calls[k].x
        YAt(k) == IF k \in breaks THEN s.t_margin ELSE calls[k].y
        marks == [k \in 1..n |->
                    [op |-> calls[k].op, sec |-> sec, page |-> PageAt(k),
                     x |-> XAt(k), y |-> YAt(k), w |-> calls[k].w, h |-> calls[k].h,
                     text |-> calls[k].text]]
        moving == {k \in 1..n : calls[k].op \in {"cell", "set_xy"}}
        last == Max(moving)
    IN  [s EXCEPT
            !.prims = @ \o SelectSeq(marks, IsPrim),
            !.page = PageAt(n),
            !.x = IF moving = {} THEN @
                  ELSE XAt(last) + calls[last].w,
            !.y = IF moving = {} THEN @
                  ELSE YAt(last) + calls[last].h * calls[last].lines]

----------------------------------------------------------------------------
(* Damdfe._build_chnfe_str and Damdfe._build_percurso_str *)

RECURSIVE ChnfeLoop(_, _)
ChnfeLoop(acc, children) ==
    IF children = << >> THEN acc
    ELSE LET chNFe_value == extract_text(Head(children), "chNFe")
         IN  ChnfeLoop(IF chNFe_value # NoText THEN Append(acc, chNFe_value) ELSE acc,
                       Tail(children))

\* _build_chnfe_str without line 70: the loop appends to the list the instance
\* already holds.
_build_chnfe_str_appending(inf_mun_descarga) ==
    ChnfeLoop(self.chNFe_str, inf_mun_descarga.children)

\* Line 70 empties self.chNFe_str before the loop.
_build_chnfe_str(inf_mun_descarga) == ChnfeLoop(<< >>, inf_mun_descarga.children)

\* One round of the loop: the separator goes in when the string so far is not
\* empty, then the child's UFPer (empty when it has none).
PercursoStep(percurso_str, per) ==
    (IF percurso_str # NoText THEN percurso_str \o Separator ELSE percurso_str)
    \o extract_text(per, "UFPer")

RECURSIVE PercursoLoop(_, _)
PercursoLoop(percurso_str, children) ==
    IF children = << >> THEN percurso_str
    ELSE PercursoLoop(PercursoStep(percurso_str, Head(children)), Tail(children))

\* "Remove a barra extra no final"
PercursoTrim(percurso_str) ==
    IF EndsWith(percurso_str, Separator) THEN SliceDropLast(percurso_str, 3)
    ELSE percurso_str

_build_percurso_str(ide) == PercursoTrim(PercursoLoop(NoText, ide.children))

\* self.per after the loop: the UFPer of the last child
LastPer(ide, before) ==
    IF ide.children = << >> THEN before
    ELSE extract_text(ide.children[Len(ide.children)], "UFPer")

----------------------------------------------------------------------------
(* Damdfe._draw_void_watermark *)

is_production_environment(ide) == extract_text(ide, "tpAmb") = <<"1">>

is_protocol_available(prot_mdfe) == ElementBool(prot_mdfe)

\* NeedsWatermark with "or" for "and".
NeedsWatermarkOr(ide, prot_mdfe) ==
    ~(is_production_environment(ide) \/ is_protocol_available(prot_mdfe))

NeedsWatermark(ide, prot_mdfe) ==
    ~(is_production_environment(ide) /\ is_protocol_available(prot_mdfe))

\* The text is rotated about the centre of the page, which is where it is
\* recorded; its own origin depends on the width of the string in the font.
_draw_void_watermark(s, x) ==
    IF NeedsWatermark(x.ide, x.protMDFe)
    THEN Draw(s, "watermark",
              <<[op |-> "text", x |-> PageW \div 2, y |-> PageH \div 2, w |-> 0,
                 h |-> 1500, text |-> T("SEM VALOR FISCAL"), lines |-> 0]>>)
    ELSE s

----------------------------------------------------------------------------
(* Damdfe._draw_header *)

\* The exception raised by lines 142-153, before anything is drawn.
HeaderLookupError(x, tb) ==
    IF DateRaises(extract_text(x.ide, "dhEmi")) THEN "ValueError"
    ELSE IF extract_text(x.ide, "tpEmis") \notin DOMAIN tb.TP_EMISSAO THEN "KeyError"
    ELSE IF DateRaises(extract_text(x.ide, "dhIniViagem")) THEN "ValueError"
    ELSE IF extract_text(x.ide, "tpEmit") \notin DOMAIN tb.TP_EMITENTE THEN "KeyError"
    ELSE IF extract_text(x.ide, "tpAmb") \notin DOMAIN tb.TP_AMBIENTE THEN "KeyError"
    ELSE "none"

emit_info(x) ==
    extract_text(x.emit, "xNome") \o T("\n")
    \o extract_text(x.emit, "xLgr") \o T(" ") \o extract_text(x.emit, "nro") \o T("\n")
    \o extract_text(x.emit, "xBairro") \o T(" ")
    \o format_cep(extract_text(x.emit, "CEP")) \o T("\n")
    \o extract_text(x.emit, "xMun") \o T(" - ") \o extract_text(x.emit, "UF") \o T("\n")
    \o T("CNPJ:") \o extract_text(x.emit, "CNPJ") \o T(" ")
    \o T("IE:") \o extract_text(x.emit, "IE") \o T("\n")
    \o T("RNTRC:") \o extract_text(x.infModal, "RNTRC") \o T(" ")
    \o T("TELEFONE:") \o format_phone(extract_text(x.emit, "fone"))

\* margins_offset with an entry for 11 mm.
margins_offset_eleven ==
    (100 :> 800) @@ (200 :> 800) @@ (300 :> 700) @@ (400 :> 700) @@ (500 :> 600)
    @@ (600 :> 600) @@ (700 :> 550) @@ (800 :> 500) @@ (900 :> 400) @@ (1000 :> 400)
    @@ (1100 :> 400)

\* margins_offset, keyed by the right margin in whole millimetres
margins_offset ==
    (100 :> 800) @@ (200 :> 800) @@ (300 :> 700) @@ (400 :> 700) @@ (500 :> 600)
    @@ (600 :> 600) @@ (700 :> 550) @@ (800 :> 500) @@ (900 :> 400) @@ (1000 :> 400)

HasOffset(cfg) == cfg.margins.right \in DOMAIN margins_offset

x_middle_of(s) == s.l_margin + (epw(s) - 50) \div 2

\* Lines 171-365: from the frame to the "CONTROLE DO FISCO" cell.
HeaderCallsBeforeBarcode(s, x, tb, y_margin) ==
    LET x_margin == s.l_margin
        page_width == epw(s)
        dthr == get_date_utc(extract_text(x.ide, "dhEmi"))
        y_middle == y_margin + 2800
    IN  <<Rect(x_margin, y_margin, page_width - 50, 8800)>>
        \o (IF s.logo_image
            THEN <<Image(T("logo"), x_margin + 200, y_margin + 200, 2000, 2000)>>
            ELSE << >>)
        \o <<Cell(x_margin + 2500, y_margin + 500, 6000, 300, emit_info(x), 6),
             Cell3(x_margin, y_margin + 2500,
                   T("DAMDFE - Documento Auxiliar do Manifesto de Documentos Fiscais Eletronicos")),
             Cell3(x_margin + 100, y_middle, T("MODELO")),
             Cell3(x_margin + 400, y_middle + 300, extract_text(x.ide, "mod")),
             Cell3(x_margin + 1300, y_middle, T("SERIE")),
             Cell3(x_margin + 1500, y_middle + 300, extract_text(x.ide, "serie")),
             Cell3(x_margin + 2100, y_middle, T("NUMERO")),
             Cell3(x_margin + 2400, y_middle + 300, extract_text(x.ide, "nMDF")),
             Cell3(x_margin + 3300, y_middle, T("FL")),
             Cell3(x_margin + 3300, y_middle + 300, T("1/1")),
             Cell3(x_margin + 3900, y_middle, T("DATA E HORA")),
             Cell3(x_margin + 3800, y_middle + 300, dthr[1] \o T(" ") \o dthr[2]),
             Cell3(x_margin + 5900, y_middle, T("UF CARREG")),
             Cell3(x_margin + 6300, y_middle + 300, extract_text(x.ide, "UFIni")),
             Cell3(x_margin + 7700, y_middle, T("UF DESCARREG")),
             Cell3(x_margin + 8400, y_middle + 300, extract_text(x.ide, "UFFim")),
             QrCode(extract_text(x.infMDFeSupl, "qrCodMDFe"), 14000, 100, 2500),
             Cell3(x_margin + 10000, y_middle, T("CONTROLE DO FISCO"))>>

\* The data the barcode encodes: Code128(self.key_mdfe)
BarcodeData(s) == s.key_mdfe

\* Lines 368-525: the barcode and what follows it.
HeaderCallsFromBarcode(s, x, cfg, tb, y_margin) ==
    LET x_margin == s.l_margin
        x_middle == x_middle_of(s)
        start == get_date_utc(extract_text(x.ide, "dhIniViagem"))
        y28 == y_margin + 2800
        y35 == y_margin + 3500
        y42 == y_margin + 4200
    IN  <<Barcode(BarcodeData(s), x_middle + margins_offset[cfg.margins.right],
                  s.t_margin + 3200, 8618, 1700),
          Cell3(x_middle + 2500, y28 + 2300,
                T("Consulta em https://dfe-portal.svrs.rs.gov.br/MDFE/Consulta")),
          Cell3(x_middle + 2500, y28 + 2800, s.key_mdfe),
          Cell3(x_middle + 2800, y28 + 3200, T("PROTOCOLO DE AUTORIZACAO DE USO")),
          Cell3(x_middle + 3200, y28 + 3500,
                s.protocol \o T(" ") \o s.dh_recebto \o T(" ") \o s.hr_recebto),
          Cell3(x_margin, y35, T("FORMA DE EMISSAO")),
          Cell3(x_margin + 600, y35 + 300, tb.TP_EMISSAO[extract_text(x.ide, "tpEmis")]),
          Cell3(x_margin + 2500, y35, T("PREVISAO DE INICIO DA VIAGEM")),
          Cell3(x_margin + 3250, y35 + 300, start[1] \o T(" ") \o start[2]),
          Cell3(x_margin + 7300, y35, T("INSC. SUFRAMA")),
          Cell3(x_margin + 1100, y42, T("TIPO DO EMITENTE")),
          Cell3(x_margin + 150, y42 + 300, tb.TP_EMITENTE[extract_text(x.ide, "tpEmit")]),
          Cell3(x_margin + 4600, y42, T("TIPO DO AMBIENTE")),
          Cell3(x_margin + 5000, y42 + 300, tb.TP_AMBIENTE[extract_text(x.ide, "tpAmb")]),
          Cell3(x_margin + 7300, y42, T("CARGA POSTERIOR"))>>

----------------------------------------------------------------------------
(* Damdfe._draw_body_info *)

BodyCalls(s, x, y_margin) ==
    LET x_margin == s.l_margin
        page_width == epw(s)
        y15 == y_margin + 1500
        y26 == y_margin + 2600
        y29 == y_margin + 2900
    IN  <<Cell0(x_margin - 200, y_margin + 1000 - 200, T("MODAL RODOVIARIO DE CARGA")),
          Cell0(x_margin - 200, y15 - 200, T("INFORMACOES PARA ANTT")),
          Cell3(x_margin, y15, T("QTD. CT-e")),
          Cell3(x_margin, y15 + 300, extract_text(x.tot, "qCTe")),
          Cell3(x_margin + 2500, y15, T("QTD. NF-e")),
          Cell3(x_margin + 2500, y15 + 300, extract_text(x.tot, "qNFe")),
          Cell3(x_margin + 5000, y15, T("PESO TOTAL")),
          Cell3(x_margin + 5000, y15 + 300, extract_text(x.tot, "qCarga")),
          Cell3(x_margin + 7500, y15, T("VALOR TOTAL")),
          Cell3(x_margin + 7500, y15 + 300,
                T("R$ ") \o format_number(extract_text(x.tot, "vCarga"), 2)),
          Cell0(x_margin - 200, y26 - 200, T("VEICULOS")),
          Cell3(x_margin, y26, T("PLACA")),
          Cell3(x_margin, y26 + 400, extract_text(x.infModal, "placa")),
          Cell3(x_margin + 2500, y26, T("UF")),
          Cell3(x_margin + 2500, y26 + 400, extract_text(x.infModal, "UF")),
          Cell3(x_margin + 5000, y26, T("RNTRC")),
          Cell3(x_margin + 5000, y26 + 400, extract_text(x.infModal, "RNTRC")),
          Cell3(x_margin + 7500, y26, T("RENAVAM")),
          Cell3(x_margin + 7500, y26 + 400, extract_text(x.infModal, "RENAVAM")),
          Cell0(page_width \div 2 - 200, y26 - 200, T("CONDUTORES")),
          \* lines 744-772: x is computed from y_middle
          Cell3(y29 + 2600, y29 - 280, T("CPF")),
          Cell3(y29 + 2600, y29 + 50, format_cpf_cnpj(extract_text(x.infModal, "CPF"))),
          Cell3(y29 + 7600, y29 - 280, T("CONDUTORES")),
          Cell(y29 + 7600, y29 + 50, 10000, 300, extract_text(x.infModal, "xNome"),
               x.xNomeLines)>>

----------------------------------------------------------------------------
(* Damdfe._draw_voucher_information *)

\* Lines 794-863, up to the title of the route.
VoucherCallsBeforePercurso(s, x, y_margin) ==
    LET x_margin == s.l_margin
        page_width == epw(s)
        y14 == y_margin + 1450
        y31 == y_margin + 3150
    IN  <<Rect(x_margin, y_margin + 1050, page_width - 50, 3000),
          Cell0((page_width - 4000) \div 2, y14 - 200, T("INFORMACOES DE VALE PEDAGIO")),
          Cell3(x_margin + 1200, y14 + 100, T("CNPJ DA FORNECEDORA")),
          Cell3(x_margin + 5900, y14 + 100, T("CPF/CNPJ DO RESPONSAVEL")),
          \* lines 833 and 843: x is computed from y_middle
          Cell3(y14 + 1500, y14 + 100, T("NUMERO DO COMPROVANTE")),
          Cell3(y14 + 6700, y14 + 100, T("VALOR DO VALE-PEDAGIO")),
          Cell0((page_width - 1800) \div 2, y31 - 200, T("PERCURSO")),
          SetXY(x_margin, y31 + 150)>>

\* Lines 863-921: the route and the head of the cargo composition table.
VoucherCallsBeforeKeys(s, x, y_margin, percurso_str) ==
    LET x_margin == s.l_margin
        page_width == epw(s)
        y40 == y_margin + 4050
        y31 == y_margin + 3150
    IN  <<Cell(x_margin, y31 + 150, 10000, 0, percurso_str, 1),
          Cell0((page_width - 5000) \div 2, y40 - 200,
                T("INFORMACOES DA COMPOSICAO DA CARGA")),
          Cell3(x_margin, y40 + 100, T("MUNICIPIO")),
          Cell3(x_margin + 3000, y40 + 100,
                T("INFORMACOES DOS DOCS. FISCAIS VINCULADOS AO MANIFESTO")),
          Cell3(x_margin + 9200, y40 + 100, T("MUNICIPIO")),
          Cell3(x_margin + 12500, y40 + 100,
                T("INFORMACOES DOS DOCS. FISCAIS VINCULADOS AO MANIFESTO"))>>

line_height == 400

KeyCell(x, y, text) == Cell(x, y, 21100, line_height, text, 1)

\* KeyRowCalls with one key per row: the right column is never used.
RECURSIVE KeyRowCallsOnePerRow(_, _, _, _, _)
KeyRowCallsOnePerRow(chNFe_str, i, current_y, x_margin, mun_descarregamento) ==
    IF i >= Len(chNFe_str) THEN << >>
    ELSE <<KeyCell(x_margin, current_y, mun_descarregamento),
           KeyCell(x_margin + 3000, current_y, chNFe_str[i + 1])>>
         \o KeyRowCallsOnePerRow(chNFe_str, i + 1, current_y + line_height, x_margin,
                                 mun_descarregamento)

\* The loop of lines 927-964 from index i (counted from 0) on: the cells drawn.
RECURSIVE KeyRowCalls(_, _, _, _, _)
KeyRowCalls(chNFe_str, i, current_y, x_margin, mun_descarregamento) ==
    IF i >= Len(chNFe_str) THEN << >>
    ELSE <<KeyCell(x_margin, current_y, mun_descarregamento),
           KeyCell(x_margin + 3000, current_y, chNFe_str[i + 1])>>
         \o (IF i + 1 < Len(chNFe_str)
             THEN <<KeyCell(x_margin + 9200, current_y, mun_descarregamento),
                    KeyCell(x_margin + 12500, current_y, chNFe_str[i + 2])>>
             ELSE << >>)
         \o KeyRowCalls(chNFe_str, i + 2, current_y + line_height, x_margin,
                        mun_descarregamento)

\* NumLinesLoop counting one per row.
RECURSIVE NumLinesLoopPerRow(_, _, _)
NumLinesLoopPerRow(chNFe_str, i, num_lines) ==
    IF i >= Len(chNFe_str) THEN num_lines
    ELSE NumLinesLoopPerRow(chNFe_str, i + 2, num_lines + 1)

\* The same loop: num_lines when it ends.
RECURSIVE NumLinesLoop(_, _, _)
NumLinesLoop(chNFe_str, i, num_lines) ==
    IF i >= Len(chNFe_str) THEN num_lines
    ELSE NumLinesLoop(chNFe_str, i + 2,
                      num_lines + 1 + (IF i + 1 < Len(chNFe_str) THEN 1 ELSE 0))

\* Lines 922-974: the rows of keys and the frame around them.
VoucherCallsKeys(s, x, y_margin, chNFe_str) ==
    LET x_margin == s.l_margin
        y_middle == y_margin + 4050
        total_height == NumLinesLoop(chNFe_str, 0, 0) * line_height
    IN  KeyRowCalls(chNFe_str, 0, y_middle + 400, x_margin,
                    extract_text(x.infDoc, "xMunDescarga"))
        \o <<Rect(x_margin, y_margin + 4050, epw(s) - 50, total_height)>>

\* The step: the instance it leaves and the exception it raises.  Iterating
\* over self.inf_mun_descarga raises TypeError when the element was not found.
_draw_voucher_information(s, x) ==
    LET y_margin == s.y
        s1 == Draw(s, "voucher", VoucherCallsBeforePercurso(s, x, y_margin))
        percurso_str == _build_percurso_str(x.ide)
        s2 == Draw([s1 EXCEPT !.percurso_str = percurso_str,
                              !.per = LastPer(x.ide, s1.per)],
                   "voucher", VoucherCallsBeforeKeys(s1, x, y_margin, percurso_str))
        chNFe_str == _build_chnfe_str(x.infMunDescarga)
    IN  IF ~x.infMunDescarga.exists
        THEN [self |-> [s2 EXCEPT !.chNFe_str = << >>], err |-> "TypeError"]
        ELSE [self |-> [Draw([s2 EXCEPT !.chNFe_str = chNFe_str], "voucher",
                             VoucherCallsKeys(s2, x, y_margin, chNFe_str))
                        EXCEPT !.x_margin_rect = 400],
              err |-> "none"]

----------------------------------------------------------------------------
(* Damdfe._draw_insurance_information *)

InsuranceCalls(s, x, y_margin) ==
    LET x_margin == s.l_margin
        page_width == epw(s)
        seguradora_nome == extract_text(x.infSeg, "xSeg")
        n_apol == extract_text(x.infSeg, "nApol")
        y_middle == y_margin + 400 + s.x_margin_rect
        y44 == y_margin + 4400
        y90 == y_margin + 9000
    IN  <<Rect(x_margin, (y_margin - 400) + s.x_margin_rect, page_width - 50, 4400),
          Cell0((page_width - 4500) \div 2, y_middle - 600,
                T("INFORMACOES SOBRE OS SEGUROS")),
          SetXY(x_margin, y_middle)>>
        \o (IF seguradora_nome # NoText
            THEN <<Cell(x_margin, y_middle, 10000, 0,
                            T("NOME: ") \o seguradora_nome \o T("  CNPJ: ")
                            \o extract_text(x.infSeg, "CNPJ"), 1)>>
            ELSE << >>)
        \o <<SetXY(x_margin, y_middle + 400)>>
        \o (IF n_apol # NoText
            THEN <<Cell(x_margin, y_middle + 400, 10000, 0,
                            T("APOLICE: ") \o n_apol \o T("  AVERBACAO: ")
                            \o extract_text(x.infSeg, "nAver"), 1)>>
            ELSE << >>)
        \o <<Rect(x_margin, y_margin + 3600 + s.x_margin_rect, page_width - 50, 4500),
             Cell0((page_width - 8000) \div 2, y44 - 200,
                   T("INFORMACOES COMPLEMENTARES DE INTERESSE DO CONTRIBUINTE")),
             Cell3(x_margin, y44 + 300, extract_text(x.infAdic, "infCl")),
             Rect(x_margin, y_margin + 8100 + s.x_margin_rect, page_width - 50, 4500),
             Cell0((page_width - 6500) \div 2, y90 - 200,
                   T("INFORMACOES ADICIONAIS DE INTERESSE DO FISCO")),
             Cell3(x_margin, y90, extract_text(x.infAdic, "infAdFisco"))>>

_draw_insurance_information(s, x) == Draw(s, "insurance", InsuranceCalls(s, x, s.y))

----------------------------------------------------------------------------
(* Damdfe.__init__ *)

\* ConfiguredInstance with automatic page breaking left on.
ConfiguredInstanceAutoBreak(cfg) ==
    [set_auto_page_break(
        set_margins(NewInstance, cfg.margins.left, cfg.margins.top, cfg.margins.right),
        TRUE, cfg.margins.bottom)
     EXCEPT !.logo_image = cfg.logo]

\* ConfiguredInstance whose list of primitives is the one of the instance
\* made before it (a list shared by the class).
ConfiguredInstanceSharingPrims(cfg) ==
    [set_auto_page_break(
        set_margins(NewInstance, cfg.margins.left, cfg.margins.top, cfg.margins.right),
        FALSE, cfg.margins.bottom)
     EXCEPT !.logo_image = cfg.logo, !.prims = self.prims]

\* Lines 30-43: the instance before the XML is read.
ConfiguredInstance(cfg) ==
    [set_auto_page_break(
        set_margins(NewInstance, cfg.margins.left, cfg.margins.top, cfg.margins.right),
        FALSE, cfg.margins.bottom)
     EXCEPT !.logo_image = cfg.logo]

\* KeyOf with the slice one character early.
KeyOfSliceThree(inf_mdfe) == SliceFrom(inf_mdfe.attrib["Id"], 3)

\* Line 57: self.inf_mdfe.attrib.get("Id")[4:]
KeyOf(inf_mdfe) == SliceFrom(inf_mdfe.attrib["Id"], 4)

\* ParseError that also raises when protMDFe is not found.
ParseErrorOnMissingProtocol(x) ==
    IF ~x.wellformed THEN "ParseError"
    ELSE IF ~x.infMDFe.exists THEN "AttributeError"
    ELSE IF "Id" \notin DOMAIN x.infMDFe.attrib THEN "TypeError"
    ELSE IF ~x.protMDFe.exists THEN "AttributeError"
    ELSE IF DateRaises(extract_text(x.protMDFe, "dhRecbto")) THEN "ValueError"
    ELSE "none"

\* The exception raised by lines 44-61: ET.fromstring on a document that is
\* not well-formed, .attrib of None, None[4:], get_date_utc on a bad timestamp.
ParseError(x) ==
    IF ~x.wellformed THEN "ParseError"
    ELSE IF ~x.infMDFe.exists THEN "AttributeError"
    ELSE IF "Id" \notin DOMAIN x.infMDFe.attrib THEN "TypeError"
    ELSE IF DateRaises(extract_text(x.protMDFe, "dhRecbto")) THEN "ValueError"
    ELSE "none"

\* Lines 57-61: the fields extracted from the document.
Extracted(s, x) ==
    LET recebto == get_date_utc(extract_text(x.protMDFe, "dhRecbto"))
    IN  [s EXCEPT !.key_mdfe = KeyOf(x.infMDFe),
                  !.protocol = extract_text(x.protMDFe, "nProt"),
                  !.dh_recebto = recebto[1],
                  !.hr_recebto = recebto[2]]

\* _draw_header with the frame drawn before the lookups.
_draw_header_frame_first(s, x, cfg, tb) ==
    LET y_margin == s.y
        e == HeaderLookupError(x, tb)
        s0 == Draw(s, "header", <<Rect(s.l_margin, y_margin, epw(s) - 50, 8800)>>)
        s1 == Draw(s, "header", HeaderCallsBeforeBarcode(s, x, tb, y_margin))
    IN  IF e # "none" THEN [self |-> s0, err |-> e]
        ELSE IF ~HasOffset(cfg) THEN [self |-> s1, err |-> "TypeError"]
        ELSE [self |-> Draw(s1, "header", HeaderCallsFromBarcode(s1, x, cfg, tb, y_margin)),
              err |-> "none"]

\* The step: the instance it leaves and the exception it raises.  Nothing is
\* drawn when a lookup of lines 142-153 raises; the barcode is placed after the
\* QR code and the "CONTROLE DO FISCO" cell, and x_middle + None raises.
_draw_header(s, x, cfg, tb) ==
    LET y_margin == s.y
        e == HeaderLookupError(x, tb)
        s1 == Draw(s, "header", HeaderCallsBeforeBarcode(s, x, tb, y_margin))
    IN  IF e # "none" THEN [self |-> s, err |-> e]
        ELSE IF ~HasOffset(cfg) THEN [self |-> s1, err |-> "TypeError"]
        ELSE [self |-> Draw(s1, "header", HeaderCallsFromBarcode(s1, x, cfg, tb, y_margin)),
              err |-> "none"]

_draw_body_info(s, x) == Draw(s, "body", BodyCalls(s, x, s.y))

\* StepAfter with the watermark step left out.
StepAfterSkippingWatermark(step) ==
    CASE step = "setup" -> "parse"
      [] step = "parse" -> "add_page"
      [] step = "add_page" -> "header"
      [] step = "watermark" -> "header"
      [] step = "header" -> "body"
      [] step = "body" -> "voucher"
      [] step = "voucher" -> "insurance"
      [] step = "insurance" -> "done"

\* Lines 62-67: the step that follows each step.
StepAfter(step) ==
    CASE step = "setup" -> "parse"
      [] step = "parse" -> "add_page"
      [] step = "add_page" -> "watermark"
      [] step = "watermark" -> "header"
      [] step = "header" -> "body"
      [] step = "body" -> "voucher"
      [] step = "voucher" -> "insurance"
      [] step = "insurance" -> "done"

\* A step ends: the constructor goes on, or the exception leaves it.
Outcome(step, s, e) ==
    /\ self' = s
    /\ err' = e
    /\ pc' = IF e = "none" THEN StepAfter(step) ELSE "failed"
    /\ steps' = Append(steps, step)
    /\ UNCHANGED <<xml, config, tables, built>>

\* Setup that writes the bottom margin it uses back into the config object.
SetupWritingConfig ==
    /\ pc = "setup"
    /\ self' = ConfiguredInstance(config)
    /\ config' = [config EXCEPT !.margins.bottom = 0]
    /\ err' = "none"
    /\ pc' = "parse"
    /\ steps' = Append(steps, "setup")
    /\ UNCHANGED <<xml, tables, built>>

Setup ==
    /\ pc = "setup"
    /\ Outcome("setup", ConfiguredInstance(config), "none")

ParseXml ==
    /\ pc = "parse"
    /\ LET e == ParseError(xml)
       IN  Outcome("parse", IF e = "none" THEN Extracted(self, xml) ELSE self, e)

AddPage ==
    /\ pc = "add_page"
    /\ Outcome("add_page", add_page(self), "none")

DrawVoidWatermark ==
    /\ pc = "watermark"
    /\ Outcome("watermark", _draw_void_watermark(self, xml), "none")

DrawHeader ==
    /\ pc = "header"
    /\ LET r == _draw_header(self, xml, config, tables)
       IN  Outcome("header", r.self, r.err)

DrawBodyInfo ==
    /\ pc = "body"
    /\ Outcome("body", _draw_body_info(self, xml), "none")

DrawVoucherInformation ==
    /\ pc = "voucher"
    /\ LET r == _draw_voucher_information(self, xml)
       IN  Outcome("voucher", r.self, r.err)

DrawInsuranceInformation ==
    /\ pc = "insurance"
    /\ Outcome("insurance", _draw_insurance_information(self, xml), "none")

Construct ==
    \/ Setup
    \/ ParseXml
    \/ AddPage
    \/ DrawVoidWatermark
    \/ DrawHeader
    \/ DrawBodyInfo
    \/ DrawVoucherInformation
    \/ DrawInsuranceInformation

\* Before Damdfe(xml, config) is called: no instance yet.
Called(inputs) ==
    /\ \E i \in inputs : xml = i[1] /\ config = i[2]
    /\ tables = ModuleTables
    /\ self = NewInstance
    /\ pc = "setup"
    /\ err = "none"
    /\ steps = << >>

Init == Called(Inputs) /\ built = << >>

Next == Construct

Spec == Init /\ [][Next]_vars

----------------------------------------------------------------------------
(* Properties of one construction *)

AllSteps ==
    <<"setup", "parse", "add_page", "watermark", "header", "body", "voucher",
      "insurance">>

Ran(step) == \E i \in 1..Len(steps) : steps[i] = step

Times(step) == Cardinality({i \in 1..Len(steps) : steps[i] = step})

PrimsOf(op) == {i \in 1..Len(self.prims) : self.prims[i].op = op}

\* C1: a construction that succeeds has run setup, parse, add_page,
\* watermark, header, body, voucher and insurance once each, in this order; at
\* every moment the steps run so far are the first steps of that list.
C1_StepsOnceInOrder ==
    /\ Len(steps) <= Len(AllSteps)
    /\ steps = SubSeq(AllSteps, 1, Len(steps))
    /\ pc = "done" => steps = AllSteps

C1_Witness == pc = "done" /\ Len(self.chNFe_str) >= 2

\* C2: after a successful construction, whatever the number of keys, add_page
\* has been called once, the document has one page, and one barcode and one QR
\* code have been drawn, on that page.
C2_OnePageOneBarcodeOneQr ==
    pc = "done" =>
        /\ Times("add_page") = 1
        /\ self.page = 1
        /\ ~self.auto_page_break
        /\ \A i \in 1..Len(self.prims) : self.prims[i].page = 1
        /\ Cardinality(PrimsOf("barcode")) = 1
        /\ Cardinality(PrimsOf("qr")) = 1

C2_Witness ==
    /\ pc = "done"
    /\ Len(self.chNFe_str) = MaxKeys
    /\ config.margins.bottom = 7500
    /\ Cardinality(PrimsOf("barcode")) = 1

WatermarkDrawn ==
    \E i \in 1..Len(self.prims) :
        self.prims[i].op = "text" /\ self.prims[i].text = T("SEM VALOR FISCAL")

\* The protocol is available when protMDFe was found and has content.
ProtocolAvailable == xml.protMDFe.exists /\ xml.protMDFe.children # << >>

Production == "tpAmb" \in DOMAIN xml.ide.tags /\ xml.ide.tags["tpAmb"] = <<"1">>

\* C3: once the watermark step has run, "SEM VALOR FISCAL" is on the page
\* exactly when the protocol is not available or tpAmb is not "1".
C3_WatermarkIffVoid ==
    Ran("watermark") => (WatermarkDrawn <=> (~ProtocolAvailable \/ ~Production))

C3_Witness ==
    /\ pc = "done"
    /\ WatermarkDrawn
    /\ ProtocolAvailable
    /\ ~Production

C3_WitnessNoWatermark ==
    /\ pc = "done"
    /\ ~WatermarkDrawn

\* The text of a tag of one of the document's elements, empty when the element
\* or the tag is missing.
TagOf(e, tag) ==
    IF xml[e].exists /\ tag \in DOMAIN xml[e].tags THEN xml[e].tags[tag] ELSE NoText

Present(e, tag) == xml[e].exists /\ tag \in DOMAIN xml[e].tags

\* The tags the constructor reads, by element.
ReadFields ==
    ({"protMDFe"} \X {"nProt", "dhRecbto"})
    \cup ({"ide"} \X {"tpAmb", "mod", "serie", "nMDF", "dhEmi", "UFIni", "UFFim",
                      "tpEmis", "dhIniViagem", "tpEmit"})
    \cup ({"emit"} \X {"CEP", "fone", "xNome", "xLgr", "nro", "xBairro", "xMun", "UF",
                       "CNPJ", "IE"})
    \cup ({"infModal"} \X {"RNTRC", "placa", "UF", "RENAVAM", "CPF", "xNome"})
    \cup ({"infMDFeSupl"} \X {"qrCodMDFe"})
    \cup ({"tot"} \X {"qNFe", "qCTe", "qCarga", "vCarga"})
    \cup ({"infDoc"} \X {"xMunDescarga"})
    \cup ({"disp"} \X {"CNPJForn", "CNPJPg", "nCompra", "vValePed"})
    \cup ({"infAdic"} \X {"infAdFisco", "infCl"})
    \cup ({"infSeg"} \X {"xSeg", "CNPJ", "nApol", "nAver"})

BadDate(e, tag) == Present(e, tag) /\ xml[e].tags[tag] # WellFormedDate

BadTpCode ==
    \/ TagOf("ide", "tpEmis") \notin DOMAIN tables.TP_EMISSAO
    \/ TagOf("ide", "tpEmit") \notin DOMAIN tables.TP_EMITENTE
    \/ TagOf("ide", "tpAmb") \notin DOMAIN tables.TP_AMBIENTE

\* What makes the constructor raise.
FailureCause ==
    \/ ~xml.wellformed
    \/ ~xml.infMDFe.exists
    \/ "Id" \notin DOMAIN xml.infMDFe.attrib
    \/ BadDate("protMDFe", "dhRecbto")
    \/ BadDate("ide", "dhEmi")
    \/ BadDate("ide", "dhIniViagem")
    \/ BadTpCode
    \/ config.margins.right \notin {100 * k : k \in 1..10}
    \/ ~xml.infMunDescarga.exists

PythonErrors == {"ParseError", "AttributeError", "TypeError", "KeyError", "ValueError"}

\* C4, amended: construction fails, with a Python exception and nothing after
\* it, exactly when the document is not well-formed, infMDFe or its Id or
\* infMunDescarga is missing, a timestamp is malformed, a tpEmis, tpEmit or
\* tpAmb code is missing or not a key of its table, or the right margin has no
\* barcode offset; every other missing field is read as the empty text and
\* construction succeeds.
FailsExactlyOnRequired ==
    /\ pc = "done" => ~FailureCause /\ err = "none"
    /\ pc = "failed" => FailureCause /\ err \in PythonErrors
    /\ pc \notin {"done", "failed"} => err = "none"

\* No step is taken after the exception, and the step that raises ends the
\* constructor.
NoRecovery == pc # "failed" /\ (err' # "none" => pc' = "failed")

C4_WitnessTolerated ==
    /\ pc = "done"
    /\ ~Present("infSeg", "xSeg")

\* The UFPer values of the children that have one, in document order.
RECURSIVE RouteValues(_)
RouteValues(children) ==
    IF children = << >> THEN << >>
    ELSE (IF "UFPer" \in DOMAIN Head(children).tags
          THEN <<Head(children).tags["UFPer"]>> ELSE << >>)
         \o RouteValues(Tail(children))

RECURSIVE Joined(_)
Joined(values) ==
    IF values = << >> THEN NoText
    ELSE IF Len(values) = 1 THEN values[1]
    ELSE values[1] \o Separator \o Joined(Tail(values))

\* C8: the route string is the UFPer values of the route entries under ide, in
\* document order, joined by " / ", whatever other children ide has.
C8_PercursoJoined ==
    Ran("voucher") => self.percurso_str = Joined(RouteValues(xml.ide.children))

\* C9: with a tpEmis, tpEmit or tpAmb code that is not a key of its table, the
\* body, voucher and insurance steps never run; when the header step is
\* reached it raises, after add_page and the watermark step, with one page and
\* no primitive of the header drawn.
C9_BadCodeFailsInHeader ==
    BadTpCode =>
        /\ pc \notin {"body", "voucher", "insurance", "done"}
        /\ ~Ran("body") /\ ~Ran("voucher") /\ ~Ran("insurance")
        /\ Ran("header") =>
            /\ pc = "failed"
            /\ err \in {"KeyError", "ValueError"}
            /\ steps = <<"setup", "parse", "add_page", "watermark", "header">>
            /\ self.page = 1
            /\ \A i \in 1..Len(self.prims) : self.prims[i].sec # "header"

C9_Witness ==
    /\ BadTpCode
    /\ pc = "failed"
    /\ err = "KeyError"
    /\ Ran("header")
    /\ WatermarkDrawn

\* The Id of infMDFe without its first four characters.
ExpectedKey ==
    LET id == xml.infMDFe.attrib["Id"]
    IN  [i \in 1..(Len(id) - 4) |-> id[i + 4]]

ParseSucceeded == Ran("parse") /\ ~(pc = "failed" /\ Len(steps) = 2)

HeaderSucceeded == Ran("header") /\ ~(pc = "failed" /\ Len(steps) = 5)

\* C10: from the end of the parse step on, before the page is added and ever
\* after, key_mdfe is the Id of infMDFe without its first four characters; once
\* the header is drawn there is one barcode, it encodes that key, and the cell
\* below it prints the same key.
C10_KeyIsIdTail ==
    /\ ~Ran("parse") => self.key_mdfe = NoText
    /\ self.page > 0 => ParseSucceeded
    /\ ParseSucceeded => self.key_mdfe = ExpectedKey
    /\ HeaderSucceeded =>
        /\ Cardinality(PrimsOf("barcode")) = 1
        /\ \A b \in PrimsOf("barcode") :
            /\ self.prims[b].text = ExpectedKey
            /\ \E c \in PrimsOf("cell") :
                /\ c > b
                /\ self.prims[c].text = self.prims[b].text
                /\ self.prims[c].x =
                     config.margins.left
                     + (PageW - config.margins.left - config.margins.right - 50) \div 2
                     + 2500
                /\ self.prims[c].y = config.margins.top + 5600
                /\ self.prims[c].y >= self.prims[b].y + self.prims[b].h

C10_Witness ==
    /\ pc = "done"
    /\ Len(xml.infMDFe.attrib["Id"]) = 6
    /\ Len(self.key_mdfe) = 2

----------------------------------------------------------------------------
(* Constructions one after another *)

SeqXmls ==
    {Xml0,
     [Xml0 EXCEPT !.ide = Ide([IdeTags0 EXCEPT !.tpAmb = <<"2">>], << >>)],
     [Xml0 EXCEPT !.xNomeLines = 2],
     [Xml0 EXCEPT !.infMDFe = None]}

SeqConfigs ==
    {Config0,
     [Config0 EXCEPT !.margins.top = 1000],
     [Config0 EXCEPT !.margins.right = 1100]}

SeqInputs == SeqXmls \X SeqConfigs

\* The constructor has returned or raised; Damdfe is called again.  The
\* instance it made (what there is of it) stays as it is.
CallAgain ==
    /\ pc \in {"done", "failed"}
    /\ Len(built) < MaxBuilt
    /\ built' = Append(built, [xml |-> xml, config |-> config, self |-> self,
                               err |-> err, steps |-> steps])
    /\ \E i \in SeqInputs : xml' = i[1] /\ config' = i[2]
    /\ pc' = "setup"
    /\ err' = "none"
    /\ steps' = << >>
    /\ UNCHANGED <<self, tables>>

InitSeq == Called(SeqInputs) /\ built = << >>

NextSeq == Construct \/ CallAgain

SpecSeq == InitSeq /\ [][NextSeq]_vars

Finished == pc \in {"done", "failed"}

FrameOfStep ==
    /\ tables' = tables
    /\ Len(built') >= Len(built)
    /\ \A i \in 1..Len(built) : built'[i] = built[i]
    /\ ~Finished => xml' = xml /\ config' = config /\ built' = built
    /\ Finished =>
        built' = Append(built, [xml |-> xml, config |-> config, self |-> self,
                                err |-> err, steps |-> steps])

\* C6: constructing changes only the instance under construction: the lookup
\* tables, the config object and the instances constructed earlier stay as
\* they are, however many constructions follow one another.
C6_OnlyTheInstanceChanges == [](tables = ModuleTables) /\ [][FrameOfStep]_vars

C6_Witness ==
    /\ pc = "done"
    /\ Len(built) = MaxBuilt
    /\ built[1].err = "none"
    /\ built[1].config = config
    /\ built[1].self.prims # << >>

SameButTop(c1, c2) ==
    /\ c1.margins.top # c2.margins.top
    /\ [c1 EXCEPT !.margins.top = 0] = [c2 EXCEPT !.margins.top = 0]

CellXs(prims) == [k \in 1..Len(prims) |-> prims[k].x]

\* C7: two renders of the same document whose configurations differ only in
\* the top margin place every cell of the header, body, voucher and insurance
\* steps at the same x.
C7_XIndependentOfTopMargin ==
    pc = "done" =>
        \A i \in 1..Len(built) :
            (/\ built[i].err = "none"
             /\ built[i].xml = xml
             /\ SameButTop(built[i].config, config)) =>
                CellXs(built[i].self.prims) = CellXs(self.prims)

----------------------------------------------------------------------------
(* Damdfe._build_chnfe_str called on a constructed instance *)

\* doc._build_chnfe_str() on the instance the constructor returned: the list is
\* rebuilt from self.inf_mun_descarga, nothing is drawn.
BuildChnfeStr ==
    /\ pc = "done"
    /\ Times("_build_chnfe_str") < MaxCalls
    /\ self' = [self EXCEPT !.chNFe_str = _build_chnfe_str(xml.infMunDescarga)]
    /\ steps' = Append(steps, "_build_chnfe_str")
    /\ UNCHANGED <<xml, config, tables, pc, err, built>>

CallInputs == XmlKeys \X {Config0}

InitCall == Called(CallInputs) /\ built = << >>

NextCall == Construct \/ BuildChnfeStr

SpecCall == InitCall /\ [][NextCall]_vars

\* The children of the first infMunDescarga that have a chNFe text.
KeyChildren ==
    {i \in 1..Len(xml.infMunDescarga.children) :
        "chNFe" \in DOMAIN xml.infMunDescarga.children[i].tags}

\* The i-th of a set of indices, in increasing order (i from 1).
Nth(S, i) == CHOOSE k \in S : Cardinality({j \in S : j <= k}) = i

VoucherSucceeded == Ran("voucher") /\ ~(pc = "failed" /\ Len(steps) = 7)

\* C11: once the voucher step has built it, and after every later call of
\* _build_chnfe_str, self.chNFe_str holds no empty text, has as many entries as
\* infMunDescarga has children with a chNFe, and its i-th entry is the chNFe of
\* the i-th such child in document order; a second call leaves the same list.
C11_ChnfeListRebuilt ==
    VoucherSucceeded =>
        /\ \A i \in 1..Len(self.chNFe_str) : self.chNFe_str[i] # NoText
        /\ Len(self.chNFe_str) = Cardinality(KeyChildren)
        /\ \A i \in 1..Len(self.chNFe_str) :
            self.chNFe_str[i] = xml.infMunDescarga.children[Nth(KeyChildren, i)].tags["chNFe"]

C11_Witness ==
    /\ Times("_build_chnfe_str") = 2
    /\ Len(self.chNFe_str) = 2
    /\ self.chNFe_str[1] # self.chNFe_str[2]
    /\ Len(xml.infMunDescarga.children) = 3
    /\ xml.infMunDescarga.children[2] = Leaf

----------------------------------------------------------------------------
(* The cargo composition table *)

\* The cells of the rows of keys: the only cells of the voucher step 211 mm wide.
IsKeyTableCell(p) == p.op = "cell" /\ p.sec = "voucher" /\ p.w = 21100

KeyTableCells == SelectSeq(self.prims, IsKeyTableCell)

IsVoucherRect(p) == p.op = "rect" /\ p.sec = "voucher"

\* The rectangle around the rows of keys: the last one the voucher step draws.
KeyTableRect ==
    LET rects == SelectSeq(self.prims, IsVoucherRect)
    IN  rects[Len(rects)]

CeilHalf(n) == (n + 1) \div 2

\* C12: with n keys collected, the table has one municipality cell and one key
\* cell per key and no other; key i (from 0) is in row i div 2, at x = left
\* margin + 30 mm when i is even and left margin + 125 mm when i is odd, its
\* municipality cell before it in the same row; the first row is 4 mm below
\* the top of the table's rectangle and each row 4 mm below the one before;
\* there are ceil(n/2) rows, and the last has no right column when n is odd.
C12_KeysTwoPerRow ==
    VoucherSucceeded =>
        LET n == Len(self.chNFe_str)
            cells == KeyTableCells
            y0 == KeyTableRect.y + 400
            l == config.margins.left
        IN  /\ Len(cells) = 2 * n
            /\ \A i \in 0..(n - 1) :
                /\ cells[2 * i + 2].text = self.chNFe_str[i + 1]
                /\ cells[2 * i + 2].x = l + (IF i % 2 = 0 THEN 3000 ELSE 12500)
                /\ cells[2 * i + 2].y = y0 + 400 * (i \div 2)
                /\ cells[2 * i + 1].text = TagOf("infDoc", "xMunDescarga")
                /\ cells[2 * i + 1].x = l + (IF i % 2 = 0 THEN 0 ELSE 9200)
                /\ cells[2 * i + 1].y = y0 + 400 * (i \div 2)
            /\ Cardinality({cells[k].y : k \in 1..Len(cells)}) = CeilHalf(n)
            /\ n % 2 = 1 =>
                ~\E k \in 1..Len(cells) :
                    /\ cells[k].y = y0 + 400 * ((n - 1) \div 2)
                    /\ cells[k].x >= l + 9200

C12_Witness ==
    /\ pc = "done"
    /\ Len(self.chNFe_str) = 3
    /\ Len(KeyTableCells) = 6
    /\ KeyTableCells[4].x = config.margins.left + 12500
    /\ KeyTableCells[6].y = KeyTableCells[4].y + 400

\* C13: num_lines counts one per key: with n keys collected the loop leaves
\* num_lines = n and the rectangle around the table is 4*n mm high (0 with no
\* key) and starts where the frame above it ends, while the rows drawn are the
\* ceil(n/2) rows of 4 mm that start 4 mm below the top of the rectangle.
C13_RectHeightPerKey ==
    VoucherSucceeded =>
        LET n == Len(self.chNFe_str)
            cells == KeyTableCells
            rect == KeyTableRect
        IN  /\ NumLinesLoop(self.chNFe_str, 0, 0) = n
            /\ rect.h = 400 * n
            /\ rect.y = SelectSeq(self.prims, IsVoucherRect)[1].y + 3000
            /\ n = 0 => rect.h = 0 /\ Len(cells) = 0
            /\ {cells[k].y : k \in 1..Len(cells)}
                 = {rect.y + 400 + 400 * r : r \in 0..(CeilHalf(n) - 1)}
            /\ \A k \in 1..Len(cells) :
                 cells[k].y + cells[k].h <= rect.y + 400 + 400 * CeilHalf(n)

C13_Witness ==
    /\ pc = "done"
    /\ Len(self.chNFe_str) = 3
    /\ KeyTableRect.h = 1200
    /\ Cardinality({KeyTableCells[k].y : k \in 1..Len(KeyTableCells)}) = 2

----------------------------------------------------------------------------
(* The barcode and the right margin *)

\* The offset of the barcode for a right margin of mm millimetres, in
\* hundredths of a millimetre.
ExpectedOffset(mm) ==
    CASE mm \in {1, 2} -> 800
      [] mm \in {3, 4} -> 700
      [] mm \in {5, 6} -> 600
      [] mm = 7 -> 550
      [] mm = 8 -> 500
      [] mm \in {9, 10} -> 400

WholeRightMargin == {mm \in 1..10 : config.margins.right = 100 * mm}

HeaderLookupsPass == ~BadTpCode /\ ~BadDate("ide", "dhEmi") /\ ~BadDate("ide", "dhIniViagem")

\* C14: a barcode is on the page only when the right margin is a whole number
\* of millimetres from 1 to 10, and then its x is x_middle plus the offset of
\* that margin; with any other right margin the body, voucher and insurance
\* steps never run, and a header step whose lookups pass raises TypeError with
\* the QR code drawn, no barcode placed and nothing of the header after it.
C14_BarcodeOffsetByRightMargin ==
    LET x_middle ==
            config.margins.left
            + (PageW - config.margins.left - config.margins.right - 50) \div 2
    IN  /\ \A b \in PrimsOf("barcode") :
            /\ WholeRightMargin # {}
            /\ \A mm \in WholeRightMargin :
                self.prims[b].x = x_middle + ExpectedOffset(mm)
        /\ HeaderSucceeded => Cardinality(PrimsOf("barcode")) = 1
        /\ WholeRightMargin = {} =>
            /\ ~Ran("body") /\ ~Ran("voucher") /\ ~Ran("insurance")
            /\ pc # "done"
            /\ (Ran("header") /\ HeaderLookupsPass) =>
                /\ pc = "failed"
                /\ err = "TypeError"
                /\ steps = <<"setup", "parse", "add_page", "watermark", "header">>
                /\ Cardinality(PrimsOf("qr")) = 1
                /\ PrimsOf("barcode") = {}
                /\ \A q \in PrimsOf("qr") :
                    \A i \in (q + 1)..Len(self.prims) :
                        self.prims[i].text = T("CONTROLE DO FISCO")

C14_Witness ==
    /\ config.margins.right = 1100
    /\ pc = "failed"
    /\ err = "TypeError"
    /\ Cardinality(PrimsOf("qr")) = 1

C14_WitnessPlaced ==
    /\ config.margins.right = 700
    /\ pc = "done"
    /\ \E b \in PrimsOf("barcode") : self.prims[b].x = 500 + 9875 + 550

====
